---- MODULE Spec2Model ----
(***************************************************************************)
(* Model of aidolon_tts_synthesize.py: the markdown sanitizer              *)
(* (_fallback_clean_tts_text) as operators over sequences of characters,   *)
(* and main() as a state machine whose steps are the blocks of main()      *)
(* between two calls into the outside world (model, pipeline, disk).       *)
(***************************************************************************)
EXTENDS Integers, Sequences, FiniteSets, TLC

\* ------------------------------------------------------------------ bounds
MaxLen == 5          \* longest raw string given to the sanitizer on its own
MaxLines == 3        \* most stdin lines read in batch mode
MaxSrLen == 2        \* longest sample-rate string
MaxRuns == 2         \* process invocations observed by the caller

\* --------------------------------------------------------------- sanitizer
\* The backtick character U+0060, written as a token.
Backtick == "BT"

Space == {" ", "\t", "\n"}

IsSpace(c) == c \in Space

Min(S) == CHOOSE j \in S : \A k \in S : j <= k

\* First index >= i of s whose character is not in C (Len(s)+1 when none).
RunEnd(s, i, C) == Min({j \in i..(Len(s) + 1) : j > Len(s) \/ s[j] \notin C})

RECURSIVE LStrip(_)
LStrip(s) == IF s = <<>> THEN s
             ELSE IF IsSpace(Head(s)) THEN LStrip(Tail(s)) ELSE s

RECURSIVE RStrip(_)
RStrip(s) == IF s = <<>> THEN s
             ELSE IF IsSpace(s[Len(s)]) THEN RStrip(SubSeq(s, 1, Len(s) - 1)) ELSE s

\* str.strip()
Strip(s) == RStrip(LStrip(s))

\* s[i..i+n-1] is n copies of the character d.
IsRun(s, i, d, n) == i + n - 1 <= Len(s) /\ \A k \in i..(i + n - 1) : s[k] = d

\* re.sub of a fenced block (three backticks, anything lazily, three backticks)
\* by one space, flags=re.DOTALL, scanning from index i.
RECURSIVE RemoveFencesFrom(_, _)
RemoveFencesFrom(s, i) ==
    IF i > Len(s) THEN <<>>
    ELSE LET closers == {j \in (i + 3)..Len(s) : IsRun(s, j, Backtick, 3)}
         IN  IF IsRun(s, i, Backtick, 3) /\ closers # {}
             THEN <<" ">> \o RemoveFencesFrom(s, Min(closers) + 3)
             ELSE <<s[i]>> \o RemoveFencesFrom(s, i + 1)

\* One pass of re.sub(D ([^d]+?) D, r"\1", s) where D is d repeated n times.
RECURSIVE UnwrapFrom(_, _, _, _)
UnwrapFrom(s, i, d, n) ==
    IF i > Len(s) THEN <<>>
    ELSE LET nexts == {j \in (i + n)..Len(s) : s[j] = d}
         IN  IF /\ IsRun(s, i, d, n)
                /\ nexts # {}
                /\ Min(nexts) >= i + n + 1
                /\ IsRun(s, Min(nexts), d, n)
             THEN SubSeq(s, i + n, Min(nexts) - 1) \o UnwrapFrom(s, Min(nexts) + n, d, n)
             ELSE <<s[i]>> \o UnwrapFrom(s, i + 1, d, n)

\* re.sub(r"!?\[([^\]]+?)\]\([^\)]+\)", r"\1", s), scanning from index i.
RECURSIVE UnwrapLinksFrom(_, _)
UnwrapLinksFrom(s, i) ==
    IF i > Len(s) THEN <<>>
    ELSE LET b  == IF s[i] = "!" THEN i + 1 ELSE i
             cb == RunEnd(s, b + 1, {c \in {s[k] : k \in 1..Len(s)} : c # "]"})
             cp == RunEnd(s, cb + 2, {c \in {s[k] : k \in 1..Len(s)} : c # ")"})
         IN  IF /\ b <= Len(s) /\ s[b] = "["
                /\ cb <= Len(s) /\ cb >= b + 2
                /\ cb + 1 <= Len(s) /\ s[cb + 1] = "("
                /\ cp <= Len(s) /\ cp >= cb + 3
             THEN SubSeq(s, b + 1, cb - 1) \o UnwrapLinksFrom(s, cp + 1)
             ELSE <<s[i]>> \o UnwrapLinksFrom(s, i + 1)

\* (?m)^ : start of the string, or just after a newline.
AtLineStart(s, i) == i = 1 \/ s[i - 1] = "\n"

\* re.sub(r"(?m)^\s{0,3}#{1,6}\s+", "", s), scanning from index i.
RECURSIVE StripHeadingsFrom(_, _)
StripHeadingsFrom(s, i) ==
    IF i > Len(s) THEN <<>>
    ELSE LET e1 == RunEnd(s, i, Space)
             e2 == RunEnd(s, e1, {"#"})
             e3 == RunEnd(s, e2, Space)
         IN  IF /\ AtLineStart(s, i)
                /\ e1 - i <= 3
                /\ e2 - e1 >= 1 /\ e2 - e1 <= 6
                /\ e3 > e2
             THEN StripHeadingsFrom(s, e3)
             ELSE <<s[i]>> \o StripHeadingsFrom(s, i + 1)

\* re.sub(r"(?m)^\s{0,3}[-*+]\s+", "", s), scanning from index i.
RECURSIVE StripBulletsFrom(_, _)
StripBulletsFrom(s, i) ==
    IF i > Len(s) THEN <<>>
    ELSE LET e1 == RunEnd(s, i, Space)
             e3 == RunEnd(s, e1 + 1, Space)
         IN  IF /\ AtLineStart(s, i)
                /\ e1 - i <= 3
                /\ e1 <= Len(s) /\ s[e1] \in {"-", "*", "+"}
                /\ e3 > e1 + 1
             THEN StripBulletsFrom(s, e3)
             ELSE <<s[i]>> \o StripBulletsFrom(s, i + 1)

\* while prev != candidate: candidate = re.sub(pat, r"\1", candidate)
RECURSIVE UnwrapFix(_, _, _)
UnwrapFix(s, d, n) ==
    LET t == UnwrapFrom(s, 1, d, n)
    IN  IF t = s THEN s ELSE UnwrapFix(t, d, n)

\* The five emphasis patterns, each to its fixed point, in the order of the code.
UnwrapEmphasis(s) ==
    UnwrapFix(UnwrapFix(UnwrapFix(UnwrapFix(UnwrapFix(s, "*", 2), "*", 1), "_", 2), "_", 1), "~", 2)

\* re.sub(r"\s+", " ", s), scanning from index i.
RECURSIVE CollapseFrom(_, _)
CollapseFrom(s, i) ==
    IF i > Len(s) THEN <<>>
    ELSE IF IsSpace(s[i]) THEN <<" ">> \o CollapseFrom(s, RunEnd(s, i, Space))
    ELSE <<s[i]>> \o CollapseFrom(s, i + 1)

\* _fallback_clean_tts_text
FallbackClean(text) ==
    LET c0 == Strip(text)
        c1 == RemoveFencesFrom(c0, 1)
        c2 == UnwrapFrom(c1, 1, Backtick, 1)
        c3 == UnwrapLinksFrom(c2, 1)
        c4 == StripHeadingsFrom(c3, 1)
        c5 == StripBulletsFrom(c4, 1)
        c6 == UnwrapEmphasis(c5)
    IN  IF c0 = <<>> THEN c0 ELSE Strip(CollapseFrom(c6, 1))

\* _clean_tts_text
CleanTtsText(text) == FallbackClean(text)


\* ------------------------------------------------------- helpers of main()
DefaultSampleRate == 48000

Digits == <<"0", "1", "2", "3", "4", "5", "6", "7", "8", "9">>

IsDigit(c) == \E k \in 1..Len(Digits) : Digits[k] = c

DigitVal(c) == (CHOOSE k \in 1..Len(Digits) : Digits[k] = c) - 1

\* Value of a nonempty string of decimal digits.
RECURSIVE DigitsValue(_)
DigitsValue(s) ==
    IF s = <<>> THEN 0
    ELSE DigitsValue(SubSeq(s, 1, Len(s) - 1)) * Len(Digits) + DigitVal(s[Len(s)])

AllDigits(s) == s # <<>> /\ \A k \in 1..Len(s) : IsDigit(s[k])

\* int(sr_raw) succeeds: an optional sign, then one or more decimal digits.
IsIntLiteral(s) ==
    \/ AllDigits(s)
    \/ s # <<>> /\ Head(s) \in {"-", "+"} /\ AllDigits(Tail(s))

\* int(sr_raw)
IntValue(s) ==
    IF Head(s) = "-" THEN 0 - DigitsValue(Tail(s))
    ELSE IF Head(s) = "+" THEN DigitsValue(Tail(s))
    ELSE DigitsValue(s)

\* Path(p).expanduser().resolve(): a relative path is put under the working
\* directory; paths are sequences of name tokens.
Resolve(p) == IF p # <<>> /\ Head(p) = "/" THEN p ELSE <<"/", "cwd", "/">> \o p

StripExt(base, ext) ==
    IF base # <<>> /\ base[Len(base)] = ext THEN SubSeq(base, 1, Len(base) - 1) ELSE base

\* _resolve_output_base
ResolveOutputBase(path_str) ==
    LET base == Strip(path_str)
    IN  IF base = <<>> THEN <<>>
        ELSE Resolve(StripExt(StripExt(base, ".wav"), ".ogg"))

\* Decimal digits of n, most significant first.
RECURSIVE Decimal(_)
Decimal(n) ==
    IF n < Len(Digits) THEN <<Digits[n + 1]>>
    ELSE Decimal(n \div Len(Digits)) \o <<Digits[(n % Len(Digits)) + 1]>>

RECURSIVE ZeroPad(_, _)
ZeroPad(s, width) == IF Len(s) >= width THEN s ELSE ZeroPad(<<"0">> \o s, width)

\* f"{idx:03}"
Fmt03(n) == ZeroPad(Decimal(n), 3)

\* Path(f"{out_base}-{idx:03}.wav")
OutWavPath(base, n) == base \o <<"-">> \o Fmt03(n) \o <<".wav">>

\* tts.codec.format_prompt(t, ctx, None)
FormatPrompt(t, c) == [text |-> t, ctx |-> c]

\* The pipeline's response to one prompt: resp.text holds the codes generated
\* for that prompt.
Response(prompt) == [text |-> prompt]

\* tts.pipe(formatted_prompts, ...) when it returns a list of m responses: the
\* responses to the prompts in order, cut short or padded to m.
PipeResponses(prompts, m) ==
    [k \in 1..m |-> IF k <= Len(prompts) THEN Response(prompts[k])
                    ELSE Response(FormatPrompt(<<>>, "none"))]

\* tts.codec.decode(resp.text, ctx)
Decode(resp_text, c) == [speech |-> resp_text.text, voice |-> c]

\* tts.generate(speak, ctx)
Generate(speak, c) == [speech |-> speak, voice |-> c]

NoAudio == [speech |-> <<>>, voice |-> "none"]

\* What _write_wav leaves in the file when it returns.
WavFile(a, rate) == [audio |-> a, rate |-> rate, complete |-> TRUE]

\* What a _write_wav that raised after wave.open may leave behind.
PartialFile == [audio |-> NoAudio, rate |-> 0, complete |-> FALSE]

\* The output directory before the run wrote anything.
EmptyDisk == [p \in {} |-> PartialFile]

Without(f, x) == [y \in (DOMAIN f) \ {x} |-> f[y]]

NoFailure == [msg |-> "", item |-> -1, cause |-> ""]

\* ------------------------------------------------------------------- inputs
ModelArgs == {<<>>, <<" ">>, <<"m">>}
RefArgs == {<<>>, <<"r">>}
SrAlphabet == {"-", "0", "1", "x"}
SrArgs == UNION {[1..n -> SrAlphabet] : n \in 0..MaxSrLen}
OutBaseArgs == {<<>>, <<" ">>, <<"o">>, <<"o", ".wav">>}
OutWavArgs == {<<>>, <<"s", ".wav">>, <<"/", "s", ".wav">>}
RawTexts == {<<>>, <<"a">>, <<"#", " ", "b">>, <<"*", "a", "*">>,
             <<Backtick, Backtick, Backtick, Backtick, Backtick, Backtick>>}
\* A stdin line by what json.loads makes of it.
Lines == [kind : {"blank", "invalid", "other"}, text : {<<>>}]
         \cup [kind : {"str", "dict"}, text : RawTexts]

\* -------------------------------------------------------------------- state
VARIABLES pc, status, failure,
          batch, sample_rate, out_base,
          lineNo, texts, origIdx, out_wavs,
          tts, ctx, pipe_result, responses, idx, audio,
          disk, stdout, calls,
          runs, prev,
          sanIn, sanOnce, sanTwice, sanPc

ctl == <<pc, status, failure>>
conf == <<batch, sample_rate, out_base>>
inp == <<lineNo, texts, origIdx, out_wavs>>
eng == <<tts, ctx, pipe_result, responses, idx, audio>>
world == <<disk, stdout, calls>>
obs == <<runs, prev>>
san == <<sanIn, sanOnce, sanTwice, sanPc>>
vars == <<ctl, conf, inp, eng, world, obs, san>>

NoRun == [failure |-> NoFailure, status |-> -1]

\* A fresh process: nothing parsed, loaded, written or printed yet.
FreshProcess(b) ==
    /\ pc = "start" /\ status = -1 /\ failure = NoFailure
    /\ batch = b /\ sample_rate = DefaultSampleRate /\ out_base = <<>>
    /\ lineNo = 0 /\ texts = <<>> /\ origIdx = <<>> /\ out_wavs = <<>>
    /\ tts = "none" /\ ctx = "none" /\ pipe_result = "none" /\ responses = <<>>
    /\ idx = 0 /\ audio = NoAudio
    /\ disk = EmptyDisk /\ stdout = <<>> /\ calls = <<>>

SanIdle == sanIn = <<>> /\ sanOnce = <<>> /\ sanTwice = <<>> /\ sanPc = "raw"

Init ==
    /\ \E b \in BOOLEAN : FreshProcess(b)
    /\ runs = 1 /\ prev = NoRun
    /\ SanIdle

\* return <st> after printing the message to stderr.
Return(st, msg, item, cause) ==
    /\ pc' = "done"
    /\ status' = st
    /\ failure' = [msg |-> msg, item |-> item, cause |-> cause]

Goto(label) == pc' = label /\ UNCHANGED <<status, failure>>

\* ------------------------------------------------------------------ main()
\* Lines 137-169: resolve model, reference and sample rate and validate them.
ResolveConfig ==
    /\ pc = "start"
    /\ \E model \in ModelArgs, ref \in RefArgs, sr_raw \in SrArgs, ref_is_file \in BOOLEAN :
         IF Strip(model) = <<>>
         THEN Return(3, "missing model", -1, "") /\ UNCHANGED sample_rate
         ELSE IF Strip(ref) = <<>>
         THEN Return(3, "missing reference audio", -1, "") /\ UNCHANGED sample_rate
         ELSE IF Strip(sr_raw) # <<>> /\ ~IsIntLiteral(Strip(sr_raw))
         THEN Return(3, "invalid sample rate", -1, "") /\ UNCHANGED sample_rate
         ELSE /\ sample_rate' = IF Strip(sr_raw) # <<>> THEN IntValue(Strip(sr_raw))
                                ELSE DefaultSampleRate
              /\ IF ~ref_is_file
                 THEN Return(3, "reference audio not found", -1, "")
                 ELSE Goto("import")
    /\ UNCHANGED <<batch, out_base, inp, eng, world, obs, san>>

\* Mutant of ImportMira: the model is constructed as soon as the import
\* succeeds, before the input is read.
ImportMiraLoadsModel ==
    /\ pc = "import"
    /\ \E ok \in BOOLEAN :
         IF ok THEN /\ Goto(IF batch THEN "out_base" ELSE "read_single")
                    /\ tts' = "loaded" /\ calls' = Append(calls, "MiraTTS")
         ELSE Return(5, "import failed", -1, "") /\ UNCHANGED <<tts, calls>>
    /\ UNCHANGED <<conf, inp, ctx, pipe_result, responses, idx, audio, disk, stdout, obs, san>>

\* Lines 171-175: from mira.model import MiraTTS.
ImportMira ==
    /\ pc = "import"
    /\ \E ok \in BOOLEAN :
         IF ok THEN Goto(IF batch THEN "out_base" ELSE "read_single")
         ELSE Return(5, "import failed", -1, "")
    /\ UNCHANGED <<conf, inp, eng, world, obs, san>>

\* Lines 180-184: batch mode needs --out-wav-base.
BatchOutBase ==
    /\ pc = "out_base"
    /\ \E arg \in OutBaseArgs :
         /\ out_base' = ResolveOutputBase(arg)
         /\ IF ResolveOutputBase(arg) = <<>>
            THEN Return(3, "missing --out-wav-base", -1, "")
            ELSE Goto("read")
    /\ UNCHANGED <<batch, sample_rate, inp, eng, world, obs, san>>

\* Lines 186-205: one iteration of the loop over the stdin lines.
ReadLine ==
    /\ pc = "read"
    /\ lineNo < MaxLines
    /\ \E line \in Lines :
         LET raw_text == IF line.kind \in {"str", "dict"} THEN line.text ELSE <<>>
             speak == CleanTtsText(raw_text)
         IN  /\ lineNo' = lineNo + 1
             /\ IF line.kind = "blank"
                THEN Goto("read") /\ UNCHANGED <<texts, origIdx>>
                ELSE IF line.kind = "invalid"
                THEN Return(4, "invalid JSONL line", -1, "") /\ UNCHANGED <<texts, origIdx>>
                ELSE /\ Goto("read")
                     /\ IF speak # <<>>
                        THEN /\ texts' = Append(texts, speak)
                             /\ origIdx' = Append(origIdx, lineNo)
                        ELSE UNCHANGED <<texts, origIdx>>
    /\ UNCHANGED <<conf, out_wavs, eng, world, obs, san>>

\* Mutant of EndOfInput: the planned paths are numbered from 1.
EndOfInputOneBased ==
    /\ pc = "read"
    /\ IF texts = <<>>
       THEN Return(4, "empty batch", -1, "") /\ UNCHANGED out_wavs
       ELSE /\ out_wavs' = [k \in 1..Len(texts) |-> OutWavPath(out_base, k)]
            /\ Goto("init")
    /\ UNCHANGED <<conf, lineNo, texts, origIdx, eng, world, obs, san>>

\* Lines 207-211: stdin is exhausted; reject an empty batch, plan the paths.
EndOfInput ==
    /\ pc = "read"
    /\ IF texts = <<>>
       THEN Return(4, "empty batch", -1, "") /\ UNCHANGED out_wavs
       ELSE /\ out_wavs' = [k \in 1..Len(texts) |-> OutWavPath(out_base, k - 1)]
            /\ Goto("init")
    /\ UNCHANGED <<conf, lineNo, texts, origIdx, eng, world, obs, san>>

\* Lines 213-228: single mode reads one text and one output path.
ReadSingle ==
    /\ pc = "read_single"
    /\ \E raw_text \in RawTexts, out_wav_arg \in OutWavArgs :
         LET speak == CleanTtsText(raw_text)
             out_wav_str == Strip(out_wav_arg)
         IN  IF speak = <<>>
             THEN Return(4, "empty text", -1, "") /\ UNCHANGED <<texts, out_wavs>>
             ELSE IF out_wav_str = <<>>
             THEN Return(3, "missing --out-wav", -1, "") /\ UNCHANGED <<texts, out_wavs>>
             ELSE /\ texts' = <<speak>>
                  /\ out_wavs' = <<Resolve(out_wav_str)>>
                  /\ Goto("init")
    /\ UNCHANGED <<conf, lineNo, origIdx, eng, world, obs, san>>

\* Lines 230-235: tts = MiraTTS(model).
InitModel ==
    /\ pc = "init"
    /\ calls' = Append(calls, "MiraTTS")
    /\ \E ok \in BOOLEAN :
         IF ok THEN tts' = "loaded" /\ Goto("encode")
         ELSE Return(6, "init failed", -1, "") /\ UNCHANGED tts
    /\ UNCHANGED <<conf, inp, ctx, pipe_result, responses, idx, audio, disk, stdout, obs, san>>

\* Mutant of EncodeReference: a failed encode is reported but the run goes on.
EncodeReferenceIgnoresFailure ==
    /\ pc = "encode"
    /\ calls' = Append(calls, "encode_audio")
    /\ \E ok \in BOOLEAN :
         IF ok THEN ctx' = "ctx" /\ Goto(IF batch THEN "pipe" ELSE "generate")
         ELSE /\ pc' = (IF batch THEN "pipe" ELSE "generate")
              /\ failure' = [msg |-> "reference encode failed", item |-> -1, cause |-> ""]
              /\ UNCHANGED <<status, ctx>>
    /\ UNCHANGED <<conf, inp, tts, pipe_result, responses, idx, audio, disk, stdout, obs, san>>

\* Lines 237-242: ctx = tts.encode_audio(str(ref_path)).
EncodeReference ==
    /\ pc = "encode"
    /\ calls' = Append(calls, "encode_audio")
    /\ \E ok \in BOOLEAN :
         IF ok THEN ctx' = "ctx" /\ Goto(IF batch THEN "pipe" ELSE "generate")
         ELSE Return(6, "reference encode failed", -1, "") /\ UNCHANGED ctx
    /\ UNCHANGED <<conf, inp, tts, pipe_result, responses, idx, audio, disk, stdout, obs, san>>

\* Mutant of RunPipeline: the count of the returned list is not checked.
RunPipelineNoCountCheck ==
    /\ pc = "pipe"
    /\ LET n == Len(texts)
           formatted_prompts == [k \in 1..n |-> FormatPrompt(texts[k], ctx)]
           formatCalls(k) == [j \in 1..k |-> "format_prompt"]
       IN  \/ \E k \in 1..n :
                /\ calls' = calls \o formatCalls(k)
                /\ Return(7, "synthesis failed (batch)", -1, "exception")
                /\ UNCHANGED <<pipe_result, responses>>
           \/ /\ calls' = calls \o formatCalls(n) \o <<"pipe">>
              /\ \/ /\ pipe_result' = "raised"
                    /\ Return(7, "synthesis failed (batch)", -1, "exception")
                    /\ UNCHANGED responses
                 \/ /\ pipe_result' = "other"
                    /\ Return(7, "synthesis failed (batch)", -1, "type")
                    /\ UNCHANGED responses
                 \/ \E m \in 0..(n + 1) :
                      /\ pipe_result' = "list"
                      /\ responses' = PipeResponses(formatted_prompts, m)
                      /\ Goto(IF m = 0 THEN "finish" ELSE "decode")
    /\ UNCHANGED <<conf, inp, tts, ctx, idx, audio, disk, stdout, obs, san>>

\* Mutant of RunPipeline: a pipeline call that raised is tried again.
RunPipelineRetries ==
    /\ pc = "pipe"
    /\ LET n == Len(texts)
           formatted_prompts == [k \in 1..n |-> FormatPrompt(texts[k], ctx)]
           formatCalls(k) == [j \in 1..k |-> "format_prompt"]
       IN  \/ \E k \in 1..n :
                /\ calls' = calls \o formatCalls(k)
                /\ Return(7, "synthesis failed (batch)", -1, "exception")
                /\ UNCHANGED <<pipe_result, responses>>
           \/ /\ calls' = calls \o formatCalls(n) \o <<"pipe">>
              /\ \/ /\ pipe_result' = "raised"
                    /\ IF pipe_result = "raised"
                       THEN Return(7, "synthesis failed (batch)", -1, "exception")
                       ELSE Goto("pipe")
                    /\ UNCHANGED responses
                 \/ /\ pipe_result' = "other"
                    /\ Return(7, "synthesis failed (batch)", -1, "type")
                    /\ UNCHANGED responses
                 \/ \E m \in 0..(n + 1) :
                      /\ pipe_result' = "list"
                      /\ responses' = PipeResponses(formatted_prompts, m)
                      /\ IF m # n
                         THEN Return(7, "synthesis failed (batch)", -1, "count")
                         ELSE Goto("decode")
    /\ UNCHANGED <<conf, inp, tts, ctx, idx, audio, disk, stdout, obs, san>>

\* Lines 251-262: format every prompt, call the pipeline once, check the
\* type and the count of what it returned. pipe_result notes what the call
\* did: it raised, returned something that is no list, or returned a list.
RunPipeline ==
    /\ pc = "pipe"
    /\ LET n == Len(texts)
           formatted_prompts == [k \in 1..n |-> FormatPrompt(texts[k], ctx)]
           formatCalls(k) == [j \in 1..k |-> "format_prompt"]
       IN  \/ \E k \in 1..n :
                /\ calls' = calls \o formatCalls(k)
                /\ Return(7, "synthesis failed (batch)", -1, "exception")
                /\ UNCHANGED <<pipe_result, responses>>
           \/ /\ calls' = calls \o formatCalls(n) \o <<"pipe">>
              /\ \/ /\ pipe_result' = "raised"
                    /\ Return(7, "synthesis failed (batch)", -1, "exception")
                    /\ UNCHANGED responses
                 \/ /\ pipe_result' = "other"
                    /\ Return(7, "synthesis failed (batch)", -1, "type")
                    /\ UNCHANGED responses
                 \/ \E m \in 0..(n + 1) :
                      /\ pipe_result' = "list"
                      /\ responses' = PipeResponses(formatted_prompts, m)
                      /\ IF m # n
                         THEN Return(7, "synthesis failed (batch)", -1, "count")
                         ELSE Goto("decode")
    /\ UNCHANGED <<conf, inp, tts, ctx, idx, audio, disk, stdout, obs, san>>

\* Mutant of DecodeItem: the failed item is reported by its 1-based number.
DecodeItemReportsNext ==
    /\ pc = "decode"
    /\ calls' = Append(calls, "decode")
    /\ \E ok \in BOOLEAN :
         IF ok THEN audio' = Decode(responses[idx + 1].text, ctx) /\ Goto("write")
         ELSE Return(7, "decode failed", idx + 1, "exception") /\ UNCHANGED audio
    /\ UNCHANGED <<conf, inp, tts, ctx, pipe_result, responses, idx, disk, stdout, obs, san>>

\* Lines 264-269: audio = tts.codec.decode(resp.text, ctx) for item idx.
DecodeItem ==
    /\ pc = "decode"
    /\ calls' = Append(calls, "decode")
    /\ \E ok \in BOOLEAN :
         IF ok THEN audio' = Decode(responses[idx + 1].text, ctx) /\ Goto("write")
         ELSE Return(7, "decode failed", idx, "exception") /\ UNCHANGED audio
    /\ UNCHANGED <<conf, inp, tts, ctx, pipe_result, responses, idx, disk, stdout, obs, san>>

\* _write_wav(out_wav, audio, sample_rate) inside its try block: it returns
\* (and the file is there, or is not: the caller checks), or it raises (and
\* wave.open may already have created the file). wave refuses a frame rate
\* that is not positive.
WriteWav(out_wav, item, next) ==
    /\ calls' = Append(calls, "_write_wav")
    /\ \/ /\ sample_rate > 0
          /\ disk' = (out_wav :> WavFile(audio, sample_rate)) @@ disk
          /\ Goto(next)
       \/ /\ sample_rate > 0
          /\ disk' = Without(disk, out_wav)
          /\ Goto(next)
       \/ /\ disk' \in {disk, (out_wav :> PartialFile) @@ disk}
          /\ Return(7, "wav write failed", item, "exception")

\* Lines 271-275.
WriteItem ==
    /\ pc = "write"
    /\ WriteWav(out_wavs[idx + 1], idx, "verify")
    /\ UNCHANGED <<conf, inp, eng, stdout, obs, san>>

\* Mutant of VerifyItem: the path is printed without checking the file.
VerifyItemEmitsUnchecked ==
    /\ pc = "verify"
    /\ stdout' = Append(stdout, out_wavs[idx + 1])
    /\ idx' = idx + 1
    /\ Goto(IF idx + 1 < Min({Len(responses), Len(out_wavs)}) THEN "decode" ELSE "finish")
    /\ UNCHANGED <<conf, inp, tts, ctx, pipe_result, responses, audio, disk, calls, obs, san>>

\* Lines 277-281 and the loop step: check the file, print its path, go on.
VerifyItem ==
    /\ pc = "verify"
    /\ IF out_wavs[idx + 1] \in DOMAIN disk
       THEN /\ stdout' = Append(stdout, out_wavs[idx + 1])
            /\ idx' = idx + 1
            /\ Goto(IF idx + 1 < Min({Len(responses), Len(out_wavs)}) THEN "decode" ELSE "finish")
       ELSE /\ Return(8, "output WAV missing", idx, "")
            /\ UNCHANGED <<stdout, idx>>
    /\ UNCHANGED <<conf, inp, tts, ctx, pipe_result, responses, audio, disk, calls, obs, san>>

\* Lines 283-288: audio = tts.generate(speak, ctx).
GenerateOne ==
    /\ pc = "generate"
    /\ calls' = Append(calls, "generate")
    /\ \E ok \in BOOLEAN :
         IF ok THEN audio' = Generate(texts[idx + 1], ctx) /\ Goto("write_one")
         ELSE Return(7, "synthesis failed", -1, "exception") /\ UNCHANGED audio
    /\ UNCHANGED <<conf, inp, tts, ctx, pipe_result, responses, idx, disk, stdout, obs, san>>

\* Lines 290-294.
WriteOne ==
    /\ pc = "write_one"
    /\ WriteWav(out_wavs[idx + 1], -1, "verify_one")
    /\ UNCHANGED <<conf, inp, eng, stdout, obs, san>>

\* Lines 296-298 and the loop step.
VerifyOne ==
    /\ pc = "verify_one"
    /\ IF out_wavs[idx + 1] \in DOMAIN disk
       THEN /\ idx' = idx + 1
            /\ Goto(IF idx + 1 < Min({Len(texts), Len(out_wavs)}) THEN "generate" ELSE "finish")
       ELSE /\ Return(8, "output WAV missing", -1, "")
            /\ UNCHANGED idx
    /\ UNCHANGED <<conf, inp, tts, ctx, pipe_result, responses, audio, world, obs, san>>

\* Lines 300-302: return 0.
Finish ==
    /\ pc = "finish"
    /\ pc' = "done"
    /\ status' = 0
    /\ UNCHANGED <<failure, conf, inp, eng, world, obs, san>>

Next ==
    \/ ResolveConfig
    \/ ImportMira
    \/ BatchOutBase
    \/ ReadLine
    \/ EndOfInput
    \/ ReadSingle
    \/ InitModel
    \/ EncodeReference
    \/ RunPipeline
    \/ DecodeItem
    \/ WriteItem
    \/ VerifyItem
    \/ GenerateOne
    \/ WriteOne
    \/ VerifyOne
    \/ Finish

Spec == Init /\ [][Next]_vars

\* ------------------------------------------------- the caller runs it again
\* The caller notes the outcome of the run that ended and starts a new process
\* (line 306: raise SystemExit(main())) on a fresh output location.
Restart ==
    /\ pc = "done"
    /\ runs < MaxRuns
    /\ runs' = runs + 1
    /\ prev' = [failure |-> failure, status |-> status]
    /\ \E b \in BOOLEAN :
         /\ pc' = "start" /\ status' = -1 /\ failure' = NoFailure
         /\ batch' = b /\ sample_rate' = DefaultSampleRate /\ out_base' = <<>>
         /\ lineNo' = 0 /\ texts' = <<>> /\ origIdx' = <<>> /\ out_wavs' = <<>>
         /\ tts' = "none" /\ ctx' = "none" /\ pipe_result' = "none"
         /\ responses' = <<>> /\ idx' = 0
         /\ audio' = NoAudio
         /\ disk' = EmptyDisk /\ stdout' = <<>> /\ calls' = <<>>
    /\ UNCHANGED san

NextRuns == Next \/ Restart

SpecRuns == Init /\ [][NextRuns]_vars

\* ------------------------------------------------- the sanitizer on its own
SanAlphabet == {"#", " ", "x", Backtick, "*", "-", "["}
SanInputs == UNION {[1..n -> SanAlphabet] : n \in 0..MaxLen}

InitSan ==
    /\ FreshProcess(FALSE)
    /\ runs = 1 /\ prev = NoRun
    /\ sanIn \in SanInputs /\ sanOnce = <<>> /\ sanTwice = <<>> /\ sanPc = "raw"

\* speak = _clean_tts_text(raw_text)
CleanOnce ==
    /\ sanPc = "raw"
    /\ sanOnce' = CleanTtsText(sanIn)
    /\ sanPc' = "once"
    /\ UNCHANGED <<sanIn, sanTwice, ctl, conf, inp, eng, world, obs>>

\* _clean_tts_text applied to its own output.
CleanAgain ==
    /\ sanPc = "once"
    /\ sanTwice' = CleanTtsText(sanOnce)
    /\ sanPc' = "twice"
    /\ UNCHANGED <<sanIn, sanOnce, ctl, conf, inp, eng, world, obs>>

NextSan == CleanOnce \/ CleanAgain

SpecSan == InitSan /\ [][NextSan]_vars

\* ==================================================================== claims
Count(seq, x) == Cardinality({k \in 1..Len(seq) : seq[k] = x})

\* The failure category of the exit-status taxonomy a stderr message falls in.
Category(f) ==
    CASE f.msg \in {"missing model", "missing reference audio", "invalid sample rate",
                    "reference audio not found", "missing --out-wav-base",
                    "missing --out-wav"} -> "invalid invocation"
      [] f.msg \in {"empty text", "empty batch"} -> "empty text"
      [] f.msg = "import failed" -> "dependency import"
      [] f.msg = "init failed" -> "model initialization"
      [] f.msg = "reference encode failed" -> "reference encoding"
      [] f.msg \in {"synthesis failed (batch)", "decode failed", "synthesis failed"}
           -> "synthesis"
      [] f.msg = "output WAV missing" -> "post-write verification"
      [] OTHER -> "uncategorised"

\* C1: two runs that fail in different categories of the exit-status taxonomy
\* return different exit statuses (the run that ended before and the run that
\* just ended are any two runs of the program).
C1_DistinctStatusPerCategory ==
    (/\ pc = "done" /\ status # 0
     /\ prev # NoRun /\ prev.status # 0
     /\ Category(failure) # "uncategorised"
     /\ Category(prev.failure) # "uncategorised"
     /\ Category(failure) # Category(prev.failure))
    => status # prev.status

\* C2: the sanitizer is idempotent: cleaning its own output changes nothing.
C2_SanitizerIdempotent ==
    sanPc = "twice" => sanTwice = sanOnce

\* C3: a run whose resolved sample rate is not a positive integer is rejected
\* before any use of the model: it makes no model initialization, reference
\* encoding, synthesis or write call, and it does not end with status 0 nor
\* with a status of a later stage (6, 7, 8).
C3_NonPositiveRateRejected ==
    sample_rate <= 0 =>
        /\ calls = <<>> /\ tts = "none" /\ ctx = "none"
        /\ pc = "done" => status \in {3, 4, 5}

\* The name <base>-NNN.wav, written out.
PlannedName(n) == out_base \o <<"-">> \o Fmt03(n) \o <<".wav">>

\* C4 as stated: in batch mode every complete file <base>-NNN.wav holds the
\* audio synthesized from the input line whose index in the input is NNN.
C4_OriginalIndexPreserved ==
    batch =>
        \A p \in DOMAIN disk :
            disk[p].complete =>
                \E n \in 0..(Len(texts) - 1) :
                    /\ p = PlannedName(n)
                    /\ disk[p].audio.speech = texts[n + 1]
                    /\ origIdx[n + 1] = n

\* C4 as amended: the items are the input lines whose sanitized text is not
\* empty, kept in input order; every complete file <base>-NNN.wav holds the
\* audio synthesized from item NNN of that list, in the reference voice; and
\* the files are written in increasing index order (the files on disk are
\* those of the items before idx, and at most that of item idx).
C4_FilteredIndexPreserved ==
    batch =>
        /\ Len(origIdx) = Len(texts)
        /\ \A k \in 1..Len(texts) : texts[k] # <<>>
        /\ \A k \in 1..(Len(origIdx) - 1) : origIdx[k] < origIdx[k + 1]
        /\ \A p \in DOMAIN disk :
               /\ \E n \in 0..(Len(texts) - 1) : p = PlannedName(n) /\ n <= idx
               /\ disk[p].complete =>
                      \E n \in 0..(Len(texts) - 1) :
                          /\ p = PlannedName(n)
                          /\ disk[p].audio = [speech |-> texts[n + 1], voice |-> "ctx"]
        /\ \A n \in 0..(idx - 1) :
               PlannedName(n) \in DOMAIN disk /\ disk[PlannedName(n)].complete

\* C4 witness: a batch whose first line was skipped ran to the end and wrote
\* two files for two different texts.
C4_Witness ==
    /\ batch /\ pc = "done" /\ status = 0
    /\ Len(texts) >= 2 /\ texts[1] # texts[2]
    /\ origIdx[1] > 0
    /\ PlannedName(1) \in DOMAIN disk

\* C5: when decoding the response of item k fails the run ends with status 7
\* and reports k; the files of the items before k are on disk as written, no
\* file of an item from k on exists, no write was made for them and no path
\* from k on was printed.
C5_DecodeFailureStopsAtItem ==
    (pc = "done" /\ failure.msg = "decode failed") =>
        LET k == Count(calls, "decode") - 1
        IN  /\ status = 7
            /\ failure.item = k
            /\ \A n \in 0..(k - 1) :
                   /\ out_wavs[n + 1] \in DOMAIN disk
                   /\ disk[out_wavs[n + 1]]
                        = WavFile(Decode(responses[n + 1].text, ctx), sample_rate)
            /\ \A n \in k..(Len(out_wavs) - 1) : out_wavs[n + 1] \notin DOMAIN disk
            /\ Count(calls, "_write_wav") = k
            /\ stdout = SubSeq(out_wavs, 1, k)

\* C5 witness: decoding failed at an item after the first.
C5_Witness ==
    /\ pc = "done" /\ failure.msg = "decode failed" /\ failure.item >= 1
    /\ Len(stdout) >= 1

\* C6: when the pipeline returns a list whose length differs from the number
\* of texts, the run has ended with status 7 and the count-mismatch message,
\* nothing was decoded or written and no path was printed.
C6_CountMismatchIsFatal ==
    (pipe_result = "list" /\ Len(responses) # Len(texts)) =>
        /\ pc = "done" /\ status = 7
        /\ failure.msg = "synthesis failed (batch)" /\ failure.cause = "count"
        /\ Count(calls, "decode") = 0 /\ Count(calls, "_write_wav") = 0
        /\ disk = EmptyDisk
        /\ stdout = <<>>

\* C6 witness: the pipeline returned fewer responses than texts, but some.
C6_Witness ==
    /\ pipe_result = "list"
    /\ Len(responses) >= 1 /\ Len(responses) < Len(texts)

SynthesisCalls == {"format_prompt", "pipe", "generate", "decode"}

\* C7: encode_audio is called at most once in a run; every prompt-format,
\* pipeline, generate and decode call comes after exactly one encode_audio
\* call that succeeded; and a failed encode ends the run with no synthesis
\* call and nothing written.
C7_ReferenceEncodedOnce ==
    /\ Count(calls, "encode_audio") <= 1
    /\ \A k \in 1..Len(calls) :
           calls[k] \in SynthesisCalls =>
               /\ \E j \in 1..(k - 1) : calls[j] = "encode_audio"
               /\ ctx = "ctx"
    /\ failure.msg = "reference encode failed" =>
           /\ pc = "done"
           /\ \A k \in 1..Len(calls) : calls[k] \notin SynthesisCalls \cup {"_write_wav"}
           /\ disk = EmptyDisk

\* C7 witness: a batch of at least two items ran to the end.
C7_Witness ==
    /\ batch /\ pc = "done" /\ status = 0 /\ Len(texts) >= 2
    /\ Count(calls, "encode_audio") = 1
    /\ Count(calls, "decode") >= 2

\* C8: in batch mode the pipeline is called at most once in a run whatever the
\* number of items, generate() is never called, and a failed pipeline call
\* ends the run at once: nothing is called after it.
C8_OnePipelineCall ==
    batch =>
        /\ Count(calls, "pipe") <= 1
        /\ Count(calls, "generate") = 0
        /\ pipe_result \in {"raised", "other"} =>
               /\ pc = "done" /\ status = 7
               /\ calls[Len(calls)] = "pipe"

\* C8 witness: one pipeline call served a batch of three items.
C8_Witness ==
    /\ batch /\ Len(texts) >= 3 /\ Count(calls, "pipe") = 1
    /\ Count(calls, "decode") >= 3

\* C9: a run that ended with a configuration error or an empty-text or
\* empty-batch error (status 3 or 4) has loaded no model and made no
\* reference-encoding or synthesis call.
C9_RejectionBeforeModel ==
    (pc = "done" /\ (status \in {3, 4}
                     \/ Category(failure) \in {"invalid invocation", "empty text"})) =>
        /\ status \in {3, 4}
        /\ tts = "none" /\ ctx = "none" /\ pipe_result = "none"
        /\ calls = <<>>

\* C9 witness: a batch whose lines all sanitized to nothing was rejected.
C9_Witness ==
    /\ pc = "done" /\ failure.msg = "empty batch" /\ lineNo >= 2

\* C10: in batch mode the printed paths are the first j planned names in
\* order, each printed after its write and each on disk as a complete file;
\* status 0 means every item was printed; and a file missing after a write
\* that returned ends the run with status 8 and its path is not printed.
C10_EmittedPathsArePrefix ==
    batch =>
        /\ Len(stdout) <= Len(out_wavs)
        /\ \A k \in 1..Len(stdout) :
               /\ stdout[k] = PlannedName(k - 1)
               /\ stdout[k] \in DOMAIN disk /\ disk[stdout[k]].complete
               /\ Count(calls, "_write_wav") >= k
        /\ (pc = "done" /\ status = 0) =>
               Len(stdout) = Len(texts) /\ Len(texts) >= 1
        /\ failure.msg = "output WAV missing" =>
               /\ pc = "done" /\ status = 8
               /\ failure.item = Count(calls, "_write_wav") - 1
               /\ Len(stdout) = failure.item
               /\ PlannedName(failure.item) \notin DOMAIN disk

\* C10 witness: the second file of a batch was missing after its write.
C10_Witness ==
    /\ batch /\ pc = "done" /\ status = 8
    /\ failure.item >= 1 /\ Len(stdout) >= 1
====
